---- MODULE Spec2Model ----
(***************************************************************************)
(* Audio-to-tab synchronisation engine of guitarprotool:                   *)
(*   core/beat_detector.py   BeatDetector.generate_sync_points             *)
(*   core/drift_analyzer.py  DriftAnalyzer                                 *)
(* and the file handling around it:                                        *)
(*   core/gp_file.py         GPFile (extract, repackage, cleanup)          *)
(*   core/xml_modifier.py    XMLModifier.inject_sync_points,               *)
(*                           XMLModifier.inject_backing_track              *)
(*                                                                         *)
(* Times are exact: a time is an integer number of ticks, one second being *)
(* TicksPerSecond ticks.  Tempi that are not whole numbers (a local tempo, *)
(* a drift percentage) are fractions <<numerator, denominator>> with a     *)
(* positive denominator.  Indices into beat_times are 0-based as in the    *)
(* source; the TLA+ sequence is read at index + 1.                         *)
(***************************************************************************)
EXTENDS Integers, Sequences, FiniteSets, TLC

VARIABLES beat_times, sample_rate, analyzer, ret,
          gp_file, disk, live_extract,
          modifier, last_injected

vars == <<beat_times, sample_rate, analyzer, ret,
          gp_file, disk, live_extract, modifier, last_injected>>

\* the GPFile, the directories on disk and whether an extraction is live
gp_vars == <<gp_file, disk, live_extract>>

\* the XMLModifier and the sync points of its last injection
xml_vars == <<modifier, last_injected>>

\* the beats, the detector's sample rate and the DriftAnalyzer
engine_vars == <<beat_times, sample_rate, analyzer>>

----------------------------------------------------------------------------
(* Bounds of the explored inputs *)

TicksPerSecond == 4
MaxBeats == 5
MaxGap == 4
MaxFirstBeat == 1
MaxBeatTicks == 2
MaxBeatsPerBar == 2
MaxTabStartBar == 2
MaxBars == 14
MaxBaseInterval == 2
MaxStartOffset == 1
MaxDriftTenths == 101
MaxTempDirs == 2
MaxSyncPoints == 2

(* Program constants *)

DEFAULT_SAMPLE_RATE == 44100
MIN_SYNC_INTERVAL == 1
MAX_SYNC_INTERVAL == 8
DRIFT_THRESHOLD_PERCENT == <<1, 2>>
WINDOW_BEATS == 8

----------------------------------------------------------------------------
(* Python arithmetic *)

Abs(x) == IF x < 0 THEN -x ELSE x

Max(a, b) == IF a >= b THEN a ELSE b

Min(a, b) == IF a <= b THEN a ELSE b

\* int(n / d) for d > 0: truncation toward zero
PyInt(n, d) == IF n >= 0 THEN n \div d ELSE -((-n) \div d)

\* round(n / d) for d > 0: nearest integer, a tie going to the even one
PyRound(n, d) ==
    LET f == n \div d
        r == n - f * d
    IN  IF 2 * r < d THEN f
        ELSE IF 2 * r > d THEN f + 1
        ELSE IF f % 2 = 0 THEN f ELSE f + 1

\* a // b for b > 0
FloorDiv(a, b) == a \div b

RECURSIVE Gcd(_, _)
Gcd(a, b) == IF b = 0 THEN a ELSE Gcd(b, a % b)

\* fractions <<n, d>>, d > 0
Rat(n, d) == LET g == Gcd(Abs(n), d) IN <<n \div g, d \div g>>

RatEq(a, b) == a[1] * b[2] = b[1] * a[2]

RatLess(a, b) == a[1] * b[2] < b[1] * a[2]

RatGeq(a, b) == ~RatLess(a, b)

RatAbs(a) == <<Abs(a[1]), a[2]>>

RatAdd(a, b) == Rat(a[1] * b[2] + b[1] * a[2], a[2] * b[2])

\* range(start, stop, step) for step > 0
RECURSIVE PyRange(_, _, _)
PyRange(start, stop, step) ==
    IF start >= stop THEN <<>>
    ELSE <<start>> \o PyRange(start + step, stop, step)

\* s[lo:hi] for 0 <= lo, hi <= len(s)
Slice(s, lo, hi) == IF hi <= lo THEN <<>> ELSE SubSeq(s, lo + 1, hi)

\* numpy.diff
Diff(s) == [i \in 1..(Len(s) - 1) |-> s[i + 1] - s[i]]

\* twice statistics.median(s), for a non-empty s
Median2(s) ==
    LET sorted == SortSeq(s, LAMBDA x, y : x < y)
        n == Len(s)
    IN  IF n % 2 = 1 THEN 2 * sorted[(n + 1) \div 2]
        ELSE sorted[n \div 2] + sorted[n \div 2 + 1]

\* int(ticks / TicksPerSecond * sample_rate): seconds to audio frames
Frames(ticks, sr) == PyInt(ticks * sr, TicksPerSecond)

----------------------------------------------------------------------------
(* DriftAnalyzer *)

NoIndex == -1

NoMaxBars == -1

Inf == -1

\* 60.0 / original_tempo, in ticks
ExpectedBeatInterval(original_tempo) == (60 * TicksPerSecond) \div original_tempo

\* the constructor test with the limit one too low
InsufficientBeats_Three(beats) == Len(beats) < 3

InsufficientBeats(beats) == Len(beats) < 4

DriftAnalyzerInit(beats, original_tempo, beats_per_bar, sr, tab_start_bar) ==
    [beat_times |-> beats,
     original_tempo |-> original_tempo,
     beats_per_bar |-> beats_per_bar,
     sample_rate |-> sr,
     tab_start_bar |-> tab_start_bar,
     expected_beat_interval |-> ExpectedBeatInterval(original_tempo),
     expected_bar_duration |-> ExpectedBeatInterval(original_tempo) * beats_per_bar,
     first_beat_time |-> beats[1]]

RECURSIVE NearestLoop(_, _, _, _, _, _)
NearestLoop(beats, expected_absolute_time, i, search_end, min_diff, nearest_idx) ==
    IF i >= search_end THEN [min_diff |-> min_diff, nearest_idx |-> nearest_idx]
    ELSE LET diff == Abs(beats[i + 1] - expected_absolute_time)
         IN  IF min_diff = Inf \/ diff < min_diff
             THEN NearestLoop(beats, expected_absolute_time, i + 1, search_end, diff, i)
             ELSE NearestLoop(beats, expected_absolute_time, i + 1, search_end,
                              min_diff, nearest_idx)

SearchStart(self, bars_from_start) ==
    Max(0, bars_from_start * self.beats_per_bar - self.beats_per_bar * 2)

SearchEnd(self, bars_from_start) ==
    Min(Len(self.beat_times), bars_from_start * self.beats_per_bar + self.beats_per_bar * 2)

ExpectedAbsoluteTime(self, bars_from_start) ==
    self.first_beat_time + bars_from_start * self.expected_bar_duration

\* the test without the one bar of tolerance after the last beat
BeyondAudio_NoTolerance(self, bars_from_start) ==
    ExpectedAbsoluteTime(self, bars_from_start) > self.beat_times[Len(self.beat_times)]

BeyondAudio(self, bars_from_start) ==
    ExpectedAbsoluteTime(self, bars_from_start)
        > self.beat_times[Len(self.beat_times)] + self.expected_bar_duration

\* direct indexing: the bar's beat taken at bars_from_start * beats_per_bar
_find_nearest_beat_to_expected_Direct(self, bars_from_start) ==
    IF Len(self.beat_times) = 0 THEN NoIndex
    ELSE IF BeyondAudio(self, bars_from_start) THEN NoIndex
    ELSE Min(Len(self.beat_times) - 1, bars_from_start * self.beats_per_bar)

_find_nearest_beat_to_expected(self, bars_from_start) ==
    IF Len(self.beat_times) = 0 THEN NoIndex
    ELSE IF BeyondAudio(self, bars_from_start) THEN NoIndex
    ELSE NearestLoop(self.beat_times, ExpectedAbsoluteTime(self, bars_from_start),
                     SearchStart(self, bars_from_start),
                     SearchEnd(self, bars_from_start), Inf, 0).nearest_idx

\* the local tempo without the return for a bar past the detected beats
calculate_local_tempo_at_bar_NoEndGuard(self, bar) ==
    LET beat_index == (bar - self.tab_start_bar) * self.beats_per_bar
        start_idx == Max(0, beat_index - WINDOW_BEATS \div 2)
        end_idx == Min(Len(self.beat_times), beat_index + WINDOW_BEATS \div 2 + 1)
        window_beats_list == Slice(self.beat_times, start_idx, end_idx)
        intervals == Diff(window_beats_list)
    IN  IF bar < self.tab_start_bar THEN <<self.original_tempo, 1>>
        ELSE IF Len(window_beats_list) < 2 THEN <<self.original_tempo, 1>>
        ELSE IF Len(intervals) = 0 THEN <<self.original_tempo, 1>>
        ELSE IF Median2(intervals) <= 0 THEN <<self.original_tempo, 1>>
        ELSE Rat(60 * TicksPerSecond * 2, Median2(intervals))

calculate_local_tempo_at_bar(self, bar) ==
    LET beat_index == (bar - self.tab_start_bar) * self.beats_per_bar
        start_idx == Max(0, beat_index - WINDOW_BEATS \div 2)
        end_idx == Min(Len(self.beat_times), beat_index + WINDOW_BEATS \div 2 + 1)
        window_beats_list == Slice(self.beat_times, start_idx, end_idx)
        intervals == Diff(window_beats_list)
    IN  IF bar < self.tab_start_bar THEN <<self.original_tempo, 1>>
        ELSE IF beat_index >= Len(self.beat_times) THEN <<self.original_tempo, 1>>
        ELSE IF Len(window_beats_list) < 2 THEN <<self.original_tempo, 1>>
        ELSE IF Len(intervals) = 0 THEN <<self.original_tempo, 1>>
        ELSE IF Median2(intervals) <= 0 THEN <<self.original_tempo, 1>>
        ELSE Rat(60 * TicksPerSecond * 2, Median2(intervals))

\* BarDriftInfo.drift_percent
drift_percent(info) ==
    IF info.original_tempo <= 0 THEN <<0, 1>>
    ELSE Rat((info.local_tempo[1] - info.original_tempo * info.local_tempo[2]) * 100,
             info.original_tempo * info.local_tempo[2])

\* the buckets applied to the signed drift
severity_Signed(info) ==
    LET abs_drift == drift_percent(info)
    IN  IF RatLess(abs_drift, <<1, 1>>) THEN "STABLE"
        ELSE IF RatLess(abs_drift, <<3, 1>>) THEN "MINOR"
        ELSE IF RatLess(abs_drift, <<5, 1>>) THEN "MODERATE"
        ELSE IF RatLess(abs_drift, <<10, 1>>) THEN "SIGNIFICANT"
        ELSE "SEVERE"

\* BarDriftInfo.severity
severity(info) ==
    LET abs_drift == RatAbs(drift_percent(info))
    IN  IF RatLess(abs_drift, <<1, 1>>) THEN "STABLE"
        ELSE IF RatLess(abs_drift, <<3, 1>>) THEN "MINOR"
        ELSE IF RatLess(abs_drift, <<5, 1>>) THEN "MODERATE"
        ELSE IF RatLess(abs_drift, <<10, 1>>) THEN "SIGNIFICANT"
        ELSE "SEVERE"

\* get_drift_at_bar without the early return for a bar before tab_start_bar
get_drift_at_bar_NoIntroGuard(self, bar) ==
    LET bars_from_start == bar - self.tab_start_bar
        nearest_beat_idx == _find_nearest_beat_to_expected(self, bars_from_start)
    IN  IF nearest_beat_idx = NoIndex THEN <<>>
        ELSE << [bar |-> bar,
                 expected_time |-> bars_from_start * self.expected_bar_duration,
                 actual_time |-> self.beat_times[nearest_beat_idx + 1] - self.first_beat_time,
                 local_tempo |-> calculate_local_tempo_at_bar(self, bar),
                 original_tempo |-> self.original_tempo] >>

\* Optional[BarDriftInfo]: <<>> is None, <<info>> is a value
get_drift_at_bar(self, bar) ==
    LET bars_from_start == bar - self.tab_start_bar
        nearest_beat_idx == _find_nearest_beat_to_expected(self, bars_from_start)
    IN  IF bar < self.tab_start_bar THEN <<>>
        ELSE IF nearest_beat_idx = NoIndex THEN <<>>
        ELSE << [bar |-> bar,
                 expected_time |-> bars_from_start * self.expected_bar_duration,
                 actual_time |-> self.beat_times[nearest_beat_idx + 1] - self.first_beat_time,
                 local_tempo |-> calculate_local_tempo_at_bar(self, bar),
                 original_tempo |-> self.original_tempo] >>

\* the threshold applied to the signed drift
DriftExceedsThreshold_Signed(self, bar) ==
    LET drift_info == get_drift_at_bar(self, bar)
    IN  /\ drift_info # <<>>
        /\ RatGeq(drift_percent(drift_info[1]), DRIFT_THRESHOLD_PERCENT)

DriftExceedsThreshold(self, bar) ==
    LET drift_info == get_drift_at_bar(self, bar)
    IN  /\ drift_info # <<>>
        /\ RatGeq(RatAbs(drift_percent(drift_info[1])), DRIFT_THRESHOLD_PERCENT)

\* the scan seeded with bar 0 instead of the first bar with notes
StartPositions_Zero(self) == <<0>>

StartPositions(self) == <<self.tab_start_bar>>

\* the base interval test with its comparison inverted
BaseIntervalReached_Inverted(bars_since_last, base_interval) ==
    bars_since_last < base_interval

\* the base interval has passed since the last sync point
BaseIntervalReached(bars_since_last, base_interval) ==
    bars_since_last >= base_interval

\* the forced sync point left out
MaxIntervalReached_Never(bars_since_last) == FALSE

\* the maximum interval has passed since the last sync point
MaxIntervalReached(bars_since_last) == bars_since_last >= MAX_SYNC_INTERVAL

RECURSIVE PositionsLoop(_, _, _, _, _, _)
PositionsLoop(self, bar, max_bars, base_interval, positions, last_sync_bar) ==
    IF bar >= max_bars THEN positions
    ELSE LET bars_since_last == bar - last_sync_bar
         IN  IF MaxIntervalReached(bars_since_last)
             THEN PositionsLoop(self, bar + 1, max_bars, base_interval,
                                Append(positions, bar), bar)
             ELSE IF bars_since_last >= MIN_SYNC_INTERVAL /\ DriftExceedsThreshold(self, bar)
             THEN PositionsLoop(self, bar + 1, max_bars, base_interval,
                                Append(positions, bar), bar)
             ELSE IF BaseIntervalReached(bars_since_last, base_interval)
             THEN PositionsLoop(self, bar + 1, max_bars, base_interval,
                                Append(positions, bar), bar)
             ELSE PositionsLoop(self, bar + 1, max_bars, base_interval,
                                positions, last_sync_bar)

\* the scan counting the bars since bar 0 instead of since tab_start_bar
_find_sync_point_positions_LastSyncZero(self, max_bars, base_interval) ==
    PositionsLoop(self, self.tab_start_bar + 1, max_bars, base_interval,
                  StartPositions(self), 0)

_find_sync_point_positions(self, max_bars, base_interval) ==
    PositionsLoop(self, self.tab_start_bar + 1, max_bars, base_interval,
                  StartPositions(self), self.tab_start_bar)

\* the matched beat taken as an absolute audio position in both modes
MatchedTime_Absolute(self, nearest_beat_idx) == self.beat_times[nearest_beat_idx + 1]

\* the time, in ticks, that _calculate_frame_offset_for_bar converts to frames
MatchedTime(self, nearest_beat_idx) ==
    IF self.tab_start_bar > 0
    THEN self.beat_times[nearest_beat_idx + 1]
    ELSE self.beat_times[nearest_beat_idx + 1] - self.first_beat_time

ExtrapolatedTime(self, bar) ==
    IF self.tab_start_bar > 0
    THEN self.first_beat_time + (bar - self.tab_start_bar) * self.expected_bar_duration
    ELSE bar * self.expected_bar_duration

\* the intro bar's time extrapolated backward from the first beat, not clamped
IntroBarTime_Unclamped(self, bar) ==
    self.first_beat_time - (self.tab_start_bar - bar) * self.expected_bar_duration

\* max(0, absolute_time) of a bar before tab_start_bar
IntroBarTime(self, bar) ==
    Max(0, self.first_beat_time
             - (self.tab_start_bar - bar) * self.expected_bar_duration)

_calculate_frame_offset_for_bar(self, bar) ==
    IF self.tab_start_bar > 0 /\ bar < self.tab_start_bar
    THEN Frames(IntroBarTime(self, bar), self.sample_rate)
    ELSE LET nearest_beat_idx ==
                 _find_nearest_beat_to_expected(self, bar - self.tab_start_bar)
         IN  IF nearest_beat_idx # NoIndex
             THEN Frames(MatchedTime(self, nearest_beat_idx), self.sample_rate)
             ELSE Frames(ExtrapolatedTime(self, bar), self.sample_rate)

SyncPointData(bar, frame_offset, modified_tempo, original_tempo) ==
    [bar |-> bar, frame_offset |-> frame_offset,
     modified_tempo |-> modified_tempo, original_tempo |-> original_tempo]

Returns(value) == [raised |-> "None", value |-> value]

Raises(exception) == [raised |-> exception]

IntroSyncPoint(self) ==
    SyncPointData(0, 0,
                  Rat(self.original_tempo * self.tab_start_bar * self.expected_bar_duration,
                      self.first_beat_time),
                  self.original_tempo)

AdaptivePoints(self, positions) ==
    [k \in 1..Len(positions) |->
        SyncPointData(positions[k],
                      _calculate_frame_offset_for_bar(self, positions[k]),
                      calculate_local_tempo_at_bar(self, positions[k]),
                      self.original_tempo)]

generate_adaptive_sync_points(self, max_bars, base_interval) ==
    LET positions == _find_sync_point_positions(self, max_bars, base_interval)
    IN  IF self.tab_start_bar > 0
        THEN IF self.first_beat_time = 0
             THEN Raises("ZeroDivisionError")
             ELSE Returns(<<IntroSyncPoint(self)>> \o AdaptivePoints(self, positions))
        ELSE Returns(AdaptivePoints(self, positions))

RECURSIVE BarDrifts(_, _, _)
BarDrifts(self, bar, max_bars) ==
    IF bar >= max_bars THEN <<>>
    ELSE get_drift_at_bar(self, bar) \o BarDrifts(self, bar + 1, max_bars)

RECURSIVE RatSum(_)
RatSum(values) ==
    IF values = <<>> THEN <<0, 1>>
    ELSE RatAdd(values[1], RatSum(Tail(values)))

\* max(values), for a non-empty sequence of fractions
RatMax(values) ==
    CHOOSE m \in {values[i] : i \in 1..Len(values)} :
        \A i \in 1..Len(values) : RatGeq(m, values[i])

\* values.index(v): the first position holding v
IndexOf(values, v) == CHOOSE i \in 1..Len(values) :
    values[i] = v /\ \A j \in 1..(i - 1) : values[j] # v

BarsOf(infos) == [i \in 1..Len(infos) |-> infos[i].bar]

\* the thresholds compared with > instead of >=
RecommendedInterval_Strict(stability_score) ==
    IF RatLess(<<9, 10>>, stability_score) THEN 8
    ELSE IF RatLess(<<7, 10>>, stability_score) THEN 4
    ELSE IF RatLess(<<5, 10>>, stability_score) THEN 2
    ELSE 1

RecommendedInterval(stability_score) ==
    IF RatGeq(stability_score, <<9, 10>>) THEN 8
    ELSE IF RatGeq(stability_score, <<7, 10>>) THEN 4
    ELSE IF RatGeq(stability_score, <<5, 10>>) THEN 2
    ELSE 1

\* max_bars estimated from the audio when the caller passes None
EstimatedMaxBars(beats, first, bar_duration) ==
    PyInt(beats[Len(beats)] - first, bar_duration) + 1

analyze(self, max_bars_arg) ==
    LET max_bars == IF max_bars_arg = NoMaxBars
                    THEN EstimatedMaxBars(self.beat_times, self.first_beat_time,
                                          self.expected_bar_duration)
                    ELSE max_bars_arg
        bar_drifts == BarDrifts(self, 0, max_bars)
        abs_drift_values == [i \in 1..Len(bar_drifts) |->
                                RatAbs(drift_percent(bar_drifts[i]))]
        stable == SelectSeq(bar_drifts,
                            LAMBDA d : severity(d) \in {"STABLE", "MINOR"})
        significant == SelectSeq(bar_drifts,
                            LAMBDA d : severity(d) \in {"MODERATE", "SIGNIFICANT", "SEVERE"})
    IN  IF bar_drifts = <<>>
        THEN [bar_drifts |-> <<>>,
              avg_drift_percent |-> <<0, 1>>,
              max_drift_percent |-> <<0, 1>>,
              max_drift_bar |-> 0,
              total_bars_analyzed |-> 0,
              bars_with_significant_drift |-> <<>>,
              tempo_stability_score |-> <<1, 1>>,
              recommended_sync_interval |-> MAX_SYNC_INTERVAL]
        ELSE [bar_drifts |-> bar_drifts,
              avg_drift_percent |->
                  Rat(RatSum(abs_drift_values)[1],
                      RatSum(abs_drift_values)[2] * Len(abs_drift_values)),
              max_drift_percent |-> RatMax(abs_drift_values),
              max_drift_bar |->
                  bar_drifts[IndexOf(abs_drift_values, RatMax(abs_drift_values))].bar,
              total_bars_analyzed |-> Len(bar_drifts),
              bars_with_significant_drift |-> BarsOf(significant),
              tempo_stability_score |-> Rat(Len(stable), Len(bar_drifts)),
              recommended_sync_interval |->
                  RecommendedInterval(Rat(Len(stable), Len(bar_drifts)))]

----------------------------------------------------------------------------
(* BeatDetector *)

_generate_static_sync_points(sr, original_tempo, beats_per_bar, bar_interval, max_bars) ==
    LET seconds_per_bar == ExpectedBeatInterval(original_tempo) * beats_per_bar
        bars == PyRange(0, max_bars, bar_interval)
    IN  IF bar_interval = 0 THEN Raises("ValueError")
        ELSE Returns([k \in 1..Len(bars) |->
                        SyncPointData(bars[k], Frames(bars[k] * seconds_per_bar, sr),
                                      <<original_tempo, 1>>, original_tempo)])

_generate_adaptive_sync_points(beats, sr, original_tempo, beats_per_bar, bar_interval, max_bars) ==
    IF InsufficientBeats(beats)
    THEN _generate_static_sync_points(sr, original_tempo, beats_per_bar,
                                      bar_interval, max_bars)
    ELSE generate_adaptive_sync_points(
             DriftAnalyzerInit(beats, original_tempo, beats_per_bar, sr, 0),
             max_bars, bar_interval)

\* the guard without its second test
TooFewBeats_EmptyOnly(beats) == Len(beats) = 0

TooFewBeats(beats) == Len(beats) = 0 \/ Len(beats) < 2

\* the padding taken with floor division instead of int()
FramePadding_Floor(first_beat_time, sr) == -((first_beat_time * sr) \div TicksPerSecond)

FramePadding(first_beat_time, sr) == -Frames(first_beat_time, sr)

generate_sync_points(beats, sr, original_tempo, beats_per_bar, sync_interval, start_offset, max_bars_arg, adaptive) ==
    IF TooFewBeats(beats) THEN Raises("BeatDetectionError")
    ELSE LET first_beat_time == beats[1] + start_offset
             frame_padding == FramePadding(first_beat_time, sr)
             bar_interval == FloorDiv(sync_interval, beats_per_bar)
             max_bars == IF max_bars_arg = NoMaxBars
                         THEN EstimatedMaxBars(beats, beats[1],
                                  ExpectedBeatInterval(original_tempo) * beats_per_bar)
                         ELSE max_bars_arg
             sync_points ==
                 IF adaptive
                 THEN _generate_adaptive_sync_points(beats, sr, original_tempo,
                                                     beats_per_bar, bar_interval, max_bars)
                 ELSE _generate_static_sync_points(sr, original_tempo, beats_per_bar,
                                                   bar_interval, max_bars)
         IN  IF sync_points.raised # "None" THEN sync_points
             ELSE Returns([sync_points |-> sync_points.value,
                           frame_padding |-> frame_padding,
                           first_beat_time |-> first_beat_time])

----------------------------------------------------------------------------
(* Tempo corrector: BeatDetector.correct_tempo_multiple.  Its beat times   *)
(* are in half ticks, so that the midpoint of two beats is a whole number. *)

\* the band around an octave ratio that is corrected, in percent of the ratio
TEMPO_TOLERANCE_PERCENT == 10

BeatInfo(bpm, beat_times_arg, confidence) ==
    [bpm |-> bpm, beat_times |-> beat_times_arg, confidence |-> confidence]

\* bpm / reference_tempo lies within the tolerance of num / den
NearRatio_Loose(bpm, reference_tempo, num, den) ==
    Abs(bpm[1] * den - num * bpm[2] * reference_tempo) * 100
        <= num * bpm[2] * reference_tempo * (TEMPO_TOLERANCE_PERCENT * TEMPO_TOLERANCE_PERCENT)

NearRatio(bpm, reference_tempo, num, den) ==
    Abs(bpm[1] * den - num * bpm[2] * reference_tempo) * 100
        <= num * bpm[2] * reference_tempo * TEMPO_TOLERANCE_PERCENT

\* every other beat, starting with the second
EveryOtherBeat_FromSecond(beats) ==
    [i \in 1..(Len(beats) \div 2) |-> beats[2 * i]]

\* every other beat, starting with the first
EveryOtherBeat(beats) ==
    [i \in 1..((Len(beats) + 1) \div 2) |-> beats[2 * i - 1]]

\* the beats with the midpoint of every consecutive pair put between them
WithMidpoints(beats) ==
    [k \in 1..(IF Len(beats) = 0 THEN 0 ELSE 2 * Len(beats) - 1) |->
        IF k % 2 = 1 THEN beats[(k + 1) \div 2]
        ELSE (beats[k \div 2] + beats[k \div 2 + 1]) \div 2]

correct_tempo_multiple(beat_info, reference_tempo) ==
    IF NearRatio(beat_info.bpm, reference_tempo, 2, 1)
    THEN BeatInfo(Rat(beat_info.bpm[1], beat_info.bpm[2] * 2),
                  EveryOtherBeat(beat_info.beat_times), beat_info.confidence)
    ELSE IF NearRatio(beat_info.bpm, reference_tempo, 1, 2)
    THEN BeatInfo(Rat(beat_info.bpm[1] * 2, beat_info.bpm[2]),
                  WithMidpoints(beat_info.beat_times), beat_info.confidence)
    ELSE beat_info

----------------------------------------------------------------------------
(* GPFile: core/gp_file.py.  A directory is a number: OutputDir is the     *)
(* directory a caller passes to extract, 1, 2, ... are the directories     *)
(* that tempfile.mkdtemp makes.  disk.dirs holds the directories that      *)
(* exist; an extracted directory holds what the archive holds.             *)

\* temp_dir is None, output_dir is None
NoDir == -1

OutputDir == 0

\* the .gp file: a ZIP with score.gpif at its root or in Content/, a ZIP
\* without score.gpif, a ZIP whose directory cannot be read, not a ZIP
Archives == {"gpif_at_root", "gpif_in_content", "no_gpif", "truncated_zip", "not_zip"}

\* GPFile.__init__
GPFileInit(archive) == [archive |-> archive, temp_dir |-> NoDir, is_extracted |-> FALSE]

\* zipfile.is_zipfile(self.filepath)
is_zipfile(archive) == archive # "not_zip"

\* tempfile.mkdtemp: a directory that did not exist before
mkdtemp(d) == d.made + 1

\* Optional[Path]: <<>> is None
_find_gpif_path(self, d) ==
    IF self.temp_dir = NoDir THEN <<>>
    ELSE IF self.temp_dir \in d.dirs /\ self.archive = "gpif_at_root"
    THEN <<[dir |-> self.temp_dir, path |-> "score.gpif"]>>
    ELSE IF self.temp_dir \in d.dirs /\ self.archive = "gpif_in_content"
    THEN <<[dir |-> self.temp_dir, path |-> "Content/score.gpif"]>>
    ELSE <<>>

validate_structure(self, d) ==
    IF self.temp_dir = NoDir \/ self.temp_dir \notin d.dirs THEN FALSE
    ELSE _find_gpif_path(self, d) # <<>>

\* the outcome of a method: the object, the disk and what the call returned
Outcome(self, d, result) == [self |-> self, disk |-> d, result |-> result]

\* io_error: zip_ref.extractall fails (an OSError)
extract(self, d, output_dir, io_error) ==
    IF self.is_extracted THEN Outcome(self, d, Returns(self.temp_dir))
    ELSE IF ~is_zipfile(self.archive)
    THEN Outcome(self, d, Raises("InvalidGPFileError"))
    ELSE LET dir == IF output_dir # NoDir THEN output_dir ELSE mkdtemp(d)
             created == [dirs |-> d.dirs \cup {dir},
                         made |-> IF output_dir # NoDir THEN d.made ELSE d.made + 1]
             removed == [created EXCEPT !.dirs = @ \ {dir}]
             assigned == [self EXCEPT !.temp_dir = dir]
         IN  IF self.archive = "truncated_zip"
             THEN Outcome(assigned, created, Raises("InvalidGPFileError"))
             ELSE IF io_error
             THEN Outcome(assigned, removed, Raises("GPExtractionError"))
             ELSE IF ~validate_structure(assigned, created)
             THEN Outcome(assigned, removed, Raises("GPFileCorruptedError"))
             ELSE Outcome([assigned EXCEPT !.is_extracted = TRUE], created,
                          Returns(dir))

NotExtracted(self) == ~self.is_extracted \/ self.temp_dir = NoDir

get_gpif_path(self, d) ==
    IF NotExtracted(self) THEN Outcome(self, d, Raises("GPFileCorruptedError"))
    ELSE IF _find_gpif_path(self, d) = <<>>
    THEN Outcome(self, d, Raises("GPFileCorruptedError"))
    ELSE Outcome(self, d, Returns(_find_gpif_path(self, d)[1]))

get_audio_dir(self, d) ==
    IF NotExtracted(self) THEN Outcome(self, d, Raises("GPFileCorruptedError"))
    ELSE Outcome(self, [d EXCEPT !.dirs = @ \cup {self.temp_dir}],
                 Returns([dir |-> self.temp_dir, path |-> "Content/Audio"]))

\* io_error: writing the new archive fails
repackage(self, d, io_error) ==
    IF NotExtracted(self) THEN Outcome(self, d, Raises("GPFileCorruptedError"))
    ELSE IF io_error THEN Outcome(self, d, Raises("GPRepackagingError"))
    ELSE Outcome(self, d, Returns("output.gp"))

cleanup(self, d) ==
    IF self.temp_dir # NoDir /\ self.temp_dir \in d.dirs
    THEN Outcome([self EXCEPT !.temp_dir = NoDir, !.is_extracted = FALSE],
                 [d EXCEPT !.dirs = @ \ {self.temp_dir}], Returns(<<>>))
    ELSE Outcome(self, d, Returns(<<>>))

----------------------------------------------------------------------------
(* XMLModifier: core/xml_modifier.py.  The document is what the methods     *)
(* read and write of it: whether the root has a MasterTrack, the children   *)
(* of MasterTrack/Automations (<<>> when there is no Automations element,   *)
(* <<children>> otherwise), and the MasterTrack, BackingTrack and Tracks    *)
(* children of the root in document order.  A number written as text is     *)
(* held as the number: "119.500" as 119500 thousandths, "120" as 120.       *)

\* SyncPoint(bar, frame_offset, modified_tempo, original_tempo)
SyncPoint(bar, frame_offset, modified_tempo, original_tempo) ==
    [bar |-> bar, frame_offset |-> frame_offset, modified_tempo |-> modified_tempo,
     original_tempo |-> original_tempo, position |-> 0, bar_occurrence |-> 0]

\* f"{tempo:.3f}", in thousandths
Format3f(tempo) == PyRound(tempo[1] * 1000, tempo[2])

Automation(type, bar, position, value) ==
    [Type |-> type, Linear |-> "false", Bar |-> bar, Position |-> position,
     Visible |-> "true", Value |-> value]

_create_sync_point_element(sync_point) ==
    Automation("SyncPoint", sync_point.bar, sync_point.position,
               [BarIndex |-> sync_point.bar,
                BarOccurrence |-> sync_point.bar_occurrence,
                ModifiedTempo |-> Format3f(sync_point.modified_tempo),
                OriginalTempo |-> PyInt(sync_point.original_tempo[1],
                                        sync_point.original_tempo[2]),
                FrameOffset |-> sync_point.frame_offset])

\* the Tempo automation of a score
TempoAutomation(tempo) == Automation("Tempo", 0, 0, [text |-> tempo])

\* automations.findall("Automation[Type='SyncPoint']")
FindSyncPoints(children) == SelectSeq(children, LAMBDA a : a.Type = "SyncPoint")

\* the removal loop leaving every child in place
WithoutSyncPoints_NoneRemoved(children) == children

\* the children left when the loop has removed every SyncPoint automation
WithoutSyncPoints(children) == SelectSeq(children, LAMBDA a : a.Type # "SyncPoint")

\* XMLModifier.__init__
XMLModifierInit(file) == [file |-> file, is_loaded |-> FALSE, root |-> <<>>]

\* the outcome of a method: the object and what the call returned
Effect(self, result) == [self |-> self, result |-> result]

load(self) ==
    IF self.is_loaded THEN Effect(self, Returns(<<>>))
    ELSE IF ~self.file.well_formed THEN Effect(self, Raises("XMLParseError"))
    ELSE Effect([self EXCEPT !.is_loaded = TRUE, !.root = <<self.file>>],
                Returns(<<>>))

\* _ensure_loaded passes
Loaded(self) == self.is_loaded /\ self.root # <<>>

\* BackingTrackConfig(name); the other fields keep their defaults
BackingTrackConfig(name) == [name |-> name, asset_id |-> 0, frame_padding |-> 0]

\* a child of the root: its tag and, for a BackingTrack, its Name
Element(tag, name) == [tag |-> tag, name |-> name]

_create_backing_track_element(config) == Element("BackingTrack", config.name)

\* self._root.find(tag): the position of the first child with the tag, 0 for None
FindChild(children, tag) ==
    IF \E i \in 1..Len(children) : children[i].tag = tag
    THEN CHOOSE i \in 1..Len(children) :
            /\ children[i].tag = tag
            /\ \A j \in 1..(i - 1) : children[j].tag # tag
    ELSE 0

\* self._root.remove(child)
RemoveChild(children, i) == SubSeq(children, 1, i - 1) \o SubSeq(children, i + 1, Len(children))

\* self._root.insert(index, child), index counted from 0
InsertChild(children, index, child) ==
    SubSeq(children, 1, index) \o <<child>> \o SubSeq(children, index + 1, Len(children))

\* the children of the root once an existing BackingTrack has been removed
WithoutExisting(children) ==
    IF FindChild(children, "BackingTrack") # 0
    THEN RemoveChild(children, FindChild(children, "BackingTrack"))
    ELSE children

inject_backing_track(self, config) ==
    IF ~Loaded(self) THEN Effect(self, Raises("XMLParseError"))
    ELSE LET remaining == WithoutExisting(self.root[1].children)
             removed == [self EXCEPT !.root[1].children = remaining]
             master_track_index == FindChild(remaining, "MasterTrack") - 1
         IN  IF FindChild(remaining, "MasterTrack") = 0
             THEN Effect(removed, Raises("XMLStructureError"))
             ELSE IF FindChild(remaining, "Tracks") = 0
             THEN Effect(removed, Raises("XMLStructureError"))
             ELSE Effect([self EXCEPT !.root[1].children =
                             InsertChild(remaining, master_track_index + 1,
                                         _create_backing_track_element(config))],
                         Returns(<<>>))

inject_sync_points(self, sync_points) ==
    IF ~Loaded(self) THEN Effect(self, Raises("XMLParseError"))
    ELSE IF sync_points = <<>> THEN Effect(self, Returns(<<>>))
    ELSE IF ~self.root[1].master_track THEN Effect(self, Raises("XMLStructureError"))
    ELSE LET automations == IF self.root[1].automations = <<>> THEN <<>>
                            ELSE self.root[1].automations[1]
             elements == [i \in 1..Len(sync_points) |->
                             _create_sync_point_element(sync_points[i])]
         IN  Effect([self EXCEPT !.root[1].automations =
                         <<WithoutSyncPoints(automations) \o elements>>],
                    Returns(<<>>))

----------------------------------------------------------------------------
(* Inputs *)

RECURSIVE BeatsFrom(_, _)
BeatsFrom(first, gaps) ==
    IF gaps = <<>> THEN <<first>>
    ELSE <<first>> \o BeatsFrom(first + gaps[1], Tail(gaps))

\* the time of the first beat: at the start of the audio, or after a lead-in
FirstBeats == {0, MaxFirstBeat}

\* the distance between two consecutive beats
Gaps == {1, MaxGap}

\* BeatInfo.beat_times: strictly increasing, non-negative
BeatSequences ==
    {<<>>} \cup
    UNION {{BeatsFrom(first, gaps) : gaps \in [1..n -> Gaps]} :
              first \in FirstBeats, n \in 0..(MaxBeats - 1)}

\* n beats, one every interval ticks
RegularBeats(first, interval, n) == [i \in 1..n |-> first + (i - 1) * interval]

\* the sequence with v put after its k-th element
InsertAfter(s, k, v) == SubSeq(s, 1, k) \o <<v>> \o SubSeq(s, k + 1, Len(s))

\* the sequence without its k-th element
WithoutBeat(s, k) == SubSeq(s, 1, k - 1) \o SubSeq(s, k + 1, Len(s))

\* beats regular at a tab tempo with one false detection between two of them
SpuriousBeatSequences ==
    UNION {{InsertAfter(RegularBeats(first, interval, n), k,
                        first + (k - 1) * interval + delta) :
               k \in 1..(n - 1), delta \in 1..(interval - 1)} :
           first \in FirstBeats, interval \in 1..MaxBeatTicks, n \in 3..MaxBeats}

\* tab tempi whose beat lasts a whole number of ticks
Tempos == {(60 * TicksPerSecond) \div k : k \in {1, MaxBeatTicks}}

BeatsPerBar == {1, MaxBeatsPerBar}

SampleRates == {3, DEFAULT_SAMPLE_RATE}

TabStartBars == {0, 1, MaxTabStartBar}

BarCounts == 0..MaxBars

BaseIntervals == (0..MaxBaseInterval) \cup {MAX_SYNC_INTERVAL + 1}

SyncIntervals == 1..(2 * MaxBeatsPerBar)

StartOffsets == (-MaxStartOffset)..MaxStartOffset

DetectorBarCounts == {NoMaxBars, 0, 1, MaxBars \div 2}

----------------------------------------------------------------------------
(* State machine *)

\* BarDriftInfo(bar, expected_time, actual_time, local_tempo, original_tempo)
BarDriftInfo(bar, expected_time, actual_time, local_tempo, original_tempo) ==
    [bar |-> bar, expected_time |-> expected_time, actual_time |-> actual_time,
     local_tempo |-> local_tempo, original_tempo |-> original_tempo]

\* drifts of a local tempo from the tab tempo, in tenths of a percent
DriftTenths == (-MaxDriftTenths)..MaxDriftTenths

\* the local tempo that lies drift_tenths / 10 percent away from original_tempo
LocalTempoAt(original_tempo, drift_tenths) ==
    Rat(original_tempo * (1000 + drift_tenths), 1000)

\* detected tempo over reference tempo, in percent: around 0.5, 1.0 and 2.0
RatioPercents ==
    {50 - TEMPO_TOLERANCE_PERCENT, 50, 54, 56, 96, 100, 104,
     100 + TEMPO_TOLERANCE_PERCENT, 179, 180, 200, 220, 221}

\* BeatInfo.bpm of the detected beats
DetectedTempos == {(t * p) \div 100 : t \in Tempos, p \in RatioPercents}

\* the beat times in half ticks
HalfTicks(beats) == [i \in 1..Len(beats) |-> 2 * beats[i]]

\* the sync points a caller injects: whole tempi, and tempi whose text is
\* rounded (119.9556 to "119.956") or truncated (120.5 to "120")
SyncPoints ==
    {SyncPoint(0, 0, <<120, 1>>, <<120, 1>>),
     SyncPoint(1, DEFAULT_SAMPLE_RATE, <<299889, 2500>>, <<241, 2>>),
     SyncPoint(1, DEFAULT_SAMPLE_RATE, <<120, 1>>, <<120, 1>>)}

\* the lists of at most MaxSyncPoints sync points
SyncPointLists == UNION {[1..n -> SyncPoints] : n \in 0..MaxSyncPoints}

\* children of MasterTrack/Automations found in a score file
AutomationLists ==
    LET tempo == TempoAutomation(120)
        old == _create_sync_point_element(SyncPoint(0, 0, <<100, 1>>, <<100, 1>>))
    IN  {<<>>, <<tempo>>, <<tempo, old>>, <<old, tempo, old>>}

\* the configurations a caller passes: the default and one with its own name
BackingTrackConfigs == {BackingTrackConfig("Audio Track"), BackingTrackConfig("New Track")}

\* the children of the root found in a score file: a score without audio,
\* with a backing track, with two, and scores that lack Tracks or MasterTrack
RootLayouts ==
    LET master == Element("MasterTrack", "")
        tracks == Element("Tracks", "")
        old == Element("BackingTrack", "Existing Track")
        other == Element("BackingTrack", "Second Track")
    IN  {<<master, tracks>>, <<master, old, tracks>>, <<master, old, other, tracks>>,
         <<master, old>>, <<old, tracks>>, <<tracks>>}

\* score.gpif files: not XML, without MasterTrack, without Automations, with it
Documents ==
    {[well_formed |-> FALSE, master_track |-> FALSE, automations |-> <<>>,
      children |-> <<>>]}
    \cup {[well_formed |-> TRUE, master_track |-> FindChild(layout, "MasterTrack") # 0,
           automations |-> automations, children |-> layout] :
             layout \in RootLayouts,
             automations \in {<<>>} \cup {<<children>> : children \in AutomationLists}}

NoCall == [op |-> "none"]

\* no GPFile and no XMLModifier constructed
NoFiles ==
    /\ gp_file = <<>>
    /\ disk = [dirs |-> {}, made |-> 0]
    /\ live_extract = FALSE
    /\ modifier = <<>>
    /\ last_injected = <<>>

Init ==
    /\ beat_times \in BeatSequences
    /\ sample_rate \in SampleRates
    /\ analyzer = <<>>
    /\ ret = NoCall
    /\ NoFiles

\* BeatDetector(sample_rate).generate_sync_points(BeatInfo(beat_times), ...)
GenerateSyncPoints ==
    /\ ret = NoCall
    /\ \E original_tempo \in Tempos, beats_per_bar \in BeatsPerBar,
       sync_interval \in SyncIntervals, start_offset \in StartOffsets,
       max_bars \in DetectorBarCounts, adaptive \in BOOLEAN :
          ret' = [op |-> "generate_sync_points",
                   original_tempo |-> original_tempo,
                   beats_per_bar |-> beats_per_bar,
                   sync_interval |-> sync_interval,
                   start_offset |-> start_offset,
                   max_bars |-> max_bars,
                   adaptive |-> adaptive,
                   result |-> generate_sync_points(beat_times, sample_rate,
                                  original_tempo, beats_per_bar, sync_interval,
                                  start_offset, max_bars, adaptive)]
    /\ UNCHANGED <<engine_vars, gp_vars, xml_vars>>

\* DriftAnalyzer(beat_times, original_tempo, beats_per_bar, sample_rate, tab_start_bar)
NewDriftAnalyzer ==
    /\ ret = NoCall
    /\ \E original_tempo \in Tempos, beats_per_bar \in BeatsPerBar,
          tab_start_bar \in TabStartBars :
          IF InsufficientBeats(beat_times)
          THEN /\ analyzer' = <<>>
               /\ ret' = [op |-> "DriftAnalyzer",
                          result |-> Raises("InsufficientBeatsError")]
          ELSE /\ analyzer' = <<DriftAnalyzerInit(beat_times, original_tempo,
                                    beats_per_bar, sample_rate, tab_start_bar)>>
               /\ ret' = [op |-> "DriftAnalyzer", result |-> Returns(<<>>)]
    /\ UNCHANGED <<beat_times, sample_rate, gp_vars, xml_vars>>

\* analyze taking the first beat off the analyzer's list (beat_times.pop(0))
Analyze_PopsFirstBeat ==
    /\ ret = NoCall
    /\ analyzer # <<>>
    /\ \E max_bars \in BarCounts \cup {NoMaxBars} :
        ret' = [op |-> "analyze", max_bars |-> max_bars,
                result |-> Returns(analyze(analyzer[1], max_bars))]
    /\ analyzer' = <<[analyzer[1] EXCEPT !.beat_times = Tail(@)]>>
    /\ UNCHANGED <<beat_times, sample_rate, gp_vars, xml_vars>>

Analyze ==
    /\ ret = NoCall
    /\ analyzer # <<>>
    /\ \E max_bars \in BarCounts \cup {NoMaxBars} :
        ret' = [op |-> "analyze", max_bars |-> max_bars,
                result |-> Returns(analyze(analyzer[1], max_bars))]
    /\ UNCHANGED <<engine_vars, gp_vars, xml_vars>>

GetDriftAtBar ==
    /\ ret = NoCall
    /\ analyzer # <<>>
    /\ \E bar \in BarCounts :
        ret' = [op |-> "get_drift_at_bar", bar |-> bar,
                result |-> Returns(get_drift_at_bar(analyzer[1], bar))]
    /\ UNCHANGED <<engine_vars, gp_vars, xml_vars>>

CalculateLocalTempoAtBar ==
    /\ ret = NoCall
    /\ analyzer # <<>>
    /\ \E bar \in BarCounts :
        ret' = [op |-> "calculate_local_tempo_at_bar", bar |-> bar,
                result |-> Returns(calculate_local_tempo_at_bar(analyzer[1], bar))]
    /\ UNCHANGED <<engine_vars, gp_vars, xml_vars>>

GenerateAdaptiveSyncPoints ==
    /\ ret = NoCall
    /\ analyzer # <<>>
    /\ \E max_bars \in BarCounts, base_interval \in BaseIntervals :
        ret' = [op |-> "generate_adaptive_sync_points",
                max_bars |-> max_bars, base_interval |-> base_interval,
                result |-> generate_adaptive_sync_points(analyzer[1], max_bars,
                                                         base_interval)]
    /\ UNCHANGED <<engine_vars, gp_vars, xml_vars>>

\* analyzer._calculate_frame_offset_for_bar(bar), for any bar of the tab
CalculateFrameOffsetForBar ==
    /\ ret = NoCall
    /\ analyzer # <<>>
    /\ \E bar \in BarCounts :
        ret' = [op |-> "_calculate_frame_offset_for_bar", bar |-> bar,
                result |-> Returns(_calculate_frame_offset_for_bar(analyzer[1], bar))]
    /\ UNCHANGED <<engine_vars, gp_vars, xml_vars>>

\* BarDriftInfo(...).severity
Severity ==
    /\ ret = NoCall
    /\ \E original_tempo \in Tempos \cup {0}, drift_tenths \in DriftTenths :
        LET info == BarDriftInfo(0, 0, 0, LocalTempoAt(original_tempo, drift_tenths),
                                 original_tempo)
        IN  ret' = [op |-> "severity", info |-> info,
                    result |-> Returns(severity(info))]
    /\ UNCHANGED <<engine_vars, gp_vars, xml_vars>>

\* beat_info = BeatDetector.correct_tempo_multiple(beat_info, original_tempo)
CorrectTempoMultiple ==
    /\ ret = NoCall
    /\ \E bpm \in DetectedTempos, reference_tempo \in Tempos :
        LET beat_info == BeatInfo(<<bpm, 1>>, HalfTicks(beat_times), 1)
        IN  ret' = [op |-> "correct_tempo_multiple",
                    beat_info |-> beat_info,
                    reference_tempo |-> reference_tempo,
                    result |-> Returns(correct_tempo_multiple(beat_info,
                                                              reference_tempo))]
    /\ UNCHANGED <<engine_vars, gp_vars, xml_vars>>

\* GPFile(filepath)
NewGPFile ==
    /\ ret = NoCall
    /\ gp_file = <<>>
    /\ \E archive \in Archives :
        gp_file' = <<GPFileInit(archive)>>
    /\ ret' = [op |-> "GPFile", result |-> Returns(<<>>)]
    /\ UNCHANGED <<engine_vars, disk, live_extract, xml_vars>>

\* gp.extract(output_dir); live_extract: a successful extract since
\* construction or the last cleanup
Extract ==
    /\ ret = NoCall
    /\ gp_file # <<>>
    /\ \E output_dir \in {NoDir, OutputDir}, io_error \in BOOLEAN :
        LET out == extract(gp_file[1], disk, output_dir, io_error)
        IN  /\ output_dir = NoDir => disk.made < MaxTempDirs
            /\ gp_file' = <<out.self>>
            /\ disk' = out.disk
            /\ live_extract' = (live_extract \/ out.result.raised = "None")
            /\ ret' = [op |-> "extract", output_dir |-> output_dir,
                       live_before |-> live_extract,
                       temp_dir_before |-> gp_file[1].temp_dir,
                       result |-> out.result]
    /\ UNCHANGED <<engine_vars, xml_vars>>

GetGpifPath ==
    /\ ret = NoCall
    /\ gp_file # <<>>
    /\ LET out == get_gpif_path(gp_file[1], disk)
       IN  /\ gp_file' = <<out.self>>
           /\ disk' = out.disk
           /\ ret' = [op |-> "get_gpif_path", result |-> out.result]
    /\ UNCHANGED <<engine_vars, live_extract, xml_vars>>

GetAudioDir ==
    /\ ret = NoCall
    /\ gp_file # <<>>
    /\ LET out == get_audio_dir(gp_file[1], disk)
       IN  /\ gp_file' = <<out.self>>
           /\ disk' = out.disk
           /\ ret' = [op |-> "get_audio_dir", result |-> out.result]
    /\ UNCHANGED <<engine_vars, live_extract, xml_vars>>

Repackage ==
    /\ ret = NoCall
    /\ gp_file # <<>>
    /\ \E io_error \in BOOLEAN :
        LET out == repackage(gp_file[1], disk, io_error)
        IN  /\ gp_file' = <<out.self>>
            /\ disk' = out.disk
            /\ ret' = [op |-> "repackage", result |-> out.result]
    /\ UNCHANGED <<engine_vars, live_extract, xml_vars>>

Cleanup ==
    /\ ret = NoCall
    /\ gp_file # <<>>
    /\ LET out == cleanup(gp_file[1], disk)
       IN  /\ gp_file' = <<out.self>>
           /\ disk' = out.disk
           /\ ret' = [op |-> "cleanup", result |-> out.result]
    /\ live_extract' = FALSE
    /\ UNCHANGED <<engine_vars, xml_vars>>

\* XMLModifier(gpif_path)
NewXMLModifier ==
    /\ ret = NoCall
    /\ modifier = <<>>
    /\ \E file \in Documents :
        modifier' = <<XMLModifierInit(file)>>
    /\ ret' = [op |-> "XMLModifier", result |-> Returns(<<>>)]
    /\ UNCHANGED <<engine_vars, gp_vars, last_injected>>

Load ==
    /\ ret = NoCall
    /\ modifier # <<>>
    /\ LET out == load(modifier[1])
       IN  /\ modifier' = <<out.self>>
           /\ ret' = [op |-> "load", result |-> out.result]
    /\ UNCHANGED <<engine_vars, gp_vars, last_injected>>

\* modifier.inject_sync_points(sync_points); last_injected: the list of the
\* most recent call with a non-empty list that returned
InjectSyncPoints ==
    /\ ret = NoCall
    /\ modifier # <<>>
    /\ \E sync_points \in SyncPointLists :
        LET out == inject_sync_points(modifier[1], sync_points)
        IN  /\ modifier' = <<out.self>>
            /\ last_injected' = IF out.result.raised = "None" /\ sync_points # <<>>
                                THEN <<sync_points>> ELSE last_injected
            /\ ret' = [op |-> "inject_sync_points", sync_points |-> sync_points,
                       before |-> modifier[1], result |-> out.result]
    /\ UNCHANGED <<engine_vars, gp_vars>>

\* analyzer._find_nearest_beat_to_expected(bars_from_start); None is NoIndex
FindNearestBeatToExpected ==
    /\ ret = NoCall
    /\ analyzer # <<>>
    /\ \E bars_from_start \in BarCounts :
        ret' = [op |-> "_find_nearest_beat_to_expected",
                bars_from_start |-> bars_from_start,
                result |-> Returns(_find_nearest_beat_to_expected(analyzer[1],
                                                                  bars_from_start))]
    /\ UNCHANGED <<engine_vars, gp_vars, xml_vars>>

\* analyzer._find_sync_point_positions(max_bars, base_interval)
FindSyncPointPositions ==
    /\ ret = NoCall
    /\ analyzer # <<>>
    /\ \E max_bars \in BarCounts, base_interval \in BaseIntervals :
        ret' = [op |-> "_find_sync_point_positions",
                max_bars |-> max_bars, base_interval |-> base_interval,
                result |-> Returns(_find_sync_point_positions(analyzer[1], max_bars,
                                                              base_interval))]
    /\ UNCHANGED <<engine_vars, gp_vars, xml_vars>>

\* modifier.inject_backing_track(config)
InjectBackingTrack ==
    /\ ret = NoCall
    /\ modifier # <<>>
    /\ \E config \in BackingTrackConfigs :
        LET out == inject_backing_track(modifier[1], config)
        IN  /\ modifier' = <<out.self>>
            /\ ret' = [op |-> "inject_backing_track", config |-> config,
                       before |-> modifier[1], result |-> out.result]
    /\ UNCHANGED <<engine_vars, gp_vars, last_injected>>

\* the caller takes the outcome of a call and goes on to its next call
TakeResult ==
    /\ ret # NoCall
    /\ ret' = NoCall
    /\ UNCHANGED <<engine_vars, gp_vars, xml_vars>>

Next ==
    \/ NewDriftAnalyzer
    \/ Analyze
    \/ GetDriftAtBar
    \/ CalculateLocalTempoAtBar
    \/ GenerateAdaptiveSyncPoints
    \/ CalculateFrameOffsetForBar
    \/ TakeResult

Spec == Init /\ [][Next]_vars

DetectorNext ==
    \/ GenerateSyncPoints
    \/ TakeResult

DetectorSpec == Init /\ [][DetectorNext]_vars

SeverityNext ==
    \/ Severity
    \/ TakeResult

SeveritySpec == Init /\ [][SeverityNext]_vars

CorrectorNext ==
    \/ CorrectTempoMultiple
    \/ TakeResult

CorrectorSpec == Init /\ [][CorrectorNext]_vars

\* no beats and no analyzer: the file handling runs before beat detection
NoEngine ==
    /\ beat_times = <<>>
    /\ sample_rate = DEFAULT_SAMPLE_RATE
    /\ analyzer = <<>>

NearestNext ==
    \/ NewDriftAnalyzer
    \/ FindNearestBeatToExpected
    \/ TakeResult

NearestSpec == Init /\ [][NearestNext]_vars

\* the detector has found the beats of a steady recording and one false beat
SpuriousInitial ==
    /\ beat_times \in SpuriousBeatSequences
    /\ sample_rate \in SampleRates
    /\ analyzer = <<>>
    /\ ret = NoCall
    /\ NoFiles

SpuriousNext ==
    \/ NewDriftAnalyzer
    \/ CalculateFrameOffsetForBar
    \/ TakeResult

SpuriousSpec == SpuriousInitial /\ [][SpuriousNext]_vars

PositionsNext ==
    \/ NewDriftAnalyzer
    \/ FindSyncPointPositions
    \/ TakeResult

PositionsSpec == Init /\ [][PositionsNext]_vars

GPFileInitial ==
    /\ NoEngine
    /\ ret = NoCall
    /\ NoFiles

GPFileNext ==
    \/ NewGPFile
    \/ Extract
    \/ GetGpifPath
    \/ GetAudioDir
    \/ Repackage
    \/ Cleanup
    \/ TakeResult

GPFileSpec == GPFileInitial /\ [][GPFileNext]_vars

XMLInitial ==
    /\ NoEngine
    /\ ret = NoCall
    /\ NoFiles

XMLNext ==
    \/ NewXMLModifier
    \/ Load
    \/ InjectSyncPoints
    \/ TakeResult

XMLSpec == XMLInitial /\ [][XMLNext]_vars

BackingTrackNext ==
    \/ NewXMLModifier
    \/ Load
    \/ InjectBackingTrack
    \/ TakeResult

BackingTrackSpec == XMLInitial /\ [][BackingTrackNext]_vars

----------------------------------------------------------------------------
(* Properties *)

IsSyncResult == ret.op = "generate_sync_points" /\ ret.result.raised = "None"

IsAdaptiveList ==
    ret.op = "generate_adaptive_sync_points" /\ ret.result.raised = "None"

StrictlyAscendingBars(points) ==
    \A i, j \in 1..Len(points) : i < j => points[i].bar < points[j].bar

\* the bar length, in ticks, of the call recorded in ret
CallBarDuration == ExpectedBeatInterval(ret.original_tempo) * ret.beats_per_bar

\* the max_bars the call recorded in ret works with
CallMaxBars ==
    IF ret.max_bars = NoMaxBars
    THEN PyInt(beat_times[Len(beat_times)] - beat_times[1], CallBarDuration) + 1
    ELSE ret.max_bars

\* C1: with at least 2 beats and positive sync_interval, beats_per_bar and
\* max_bars, generate_sync_points(adaptive=False) returns a non-empty list of
\* sync points with strictly ascending bars whose first bar is 0.
C1_StaticPlanAscendingFromBarZero ==
    (/\ ret.op = "generate_sync_points"
     /\ ~ret.adaptive
     /\ Len(beat_times) >= 2
     /\ ret.sync_interval > 0 /\ ret.beats_per_bar > 0
     /\ (ret.max_bars = NoMaxBars \/ ret.max_bars > 0))
    => /\ ret.result.raised = "None"
       /\ Len(ret.result.value.sync_points) > 0
       /\ StrictlyAscendingBars(ret.result.value.sync_points)
       /\ ret.result.value.sync_points[1].bar = 0

\* C2: generate_sync_points on 0 or 1 beat times ends in BeatDetectionError,
\* adaptive or not, and returns no SyncResult.
C2_TooFewBeatsRaise ==
    (ret.op = "generate_sync_points" /\ Len(beat_times) < 2)
    => ret.result.raised = "BeatDetectionError"

C2_Witness ==
    /\ ret.op = "generate_sync_points"
    /\ Len(beat_times) = 1
    /\ ret.adaptive
    /\ ret.result.raised = "BeatDetectionError"

\* C3: generate_sync_points(adaptive=True) on exactly 2 or 3 beats surfaces no
\* error and returns the static plan: bars 0, bar_interval, 2*bar_interval, ...
\* below max_bars, each with modified_tempo = original_tempo.
C3_FewBeatsFallBackToStaticPlan ==
    (/\ ret.op = "generate_sync_points"
     /\ ret.adaptive
     /\ Len(beat_times) \in {2, 3})
    => /\ ret.result.raised = "None"
       /\ LET bar_interval == ret.sync_interval \div ret.beats_per_bar
              points == ret.result.value.sync_points
          IN  /\ \A k \in 1..Len(points) :
                    /\ points[k].bar = (k - 1) * bar_interval
                    /\ points[k].bar < CallMaxBars
                    /\ points[k].frame_offset
                         = Frames(points[k].bar * CallBarDuration, sample_rate)
                    /\ points[k].modified_tempo = <<ret.original_tempo, 1>>
                    /\ points[k].original_tempo = ret.original_tempo
              /\ Len(points) * bar_interval >= CallMaxBars

\* C4: the DriftAnalyzer constructor raises InsufficientBeatsError exactly when
\* fewer than 4 beat times are given; otherwise it succeeds and first_beat_time
\* is beat_times[0].
C4_ConstructorNeedsFourBeats ==
    ret.op = "DriftAnalyzer"
    => /\ ret.result.raised \in {"None", "InsufficientBeatsError"}
       /\ ret.result.raised = "InsufficientBeatsError" <=> Len(beat_times) < 4
       /\ ret.result.raised = "InsufficientBeatsError" => analyzer = <<>>
       /\ ret.result.raised = "None"
            => /\ analyzer # <<>>
               /\ analyzer[1].first_beat_time = beat_times[1]
               /\ analyzer[1].beat_times = beat_times

C4_Witness ==
    /\ ret.op = "DriftAnalyzer"
    /\ Len(beat_times) = 4
    /\ beat_times[1] > 0
    /\ ret.result.raised = "None"
    /\ analyzer # <<>>

\* C5: in relative mode (no intro bars) the sync point of bar 0 has
\* frame_offset 0, wherever the first beat lies and whatever start_offset is,
\* in the adaptive and in the static plan; a non-empty plan starts with it.
C5_BarZeroAtFrameZero ==
    IsSyncResult
    => LET points == ret.result.value.sync_points
       IN  /\ \A k \in 1..Len(points) :
                 points[k].bar = 0 => points[k].frame_offset = 0
           /\ Len(points) > 0 => points[1].bar = 0

C5_Witness ==
    /\ IsSyncResult
    /\ ret.adaptive
    /\ Len(beat_times) >= 4
    /\ beat_times[1] > 0
    /\ ret.start_offset # 0
    /\ sample_rate = DEFAULT_SAMPLE_RATE
    /\ Len(ret.result.value.sync_points) >= 2
    /\ ret.result.value.sync_points[1].bar = 0
    /\ ret.result.value.sync_points[1].frame_offset = 0

\* C6 as stated: frame_padding = -round(first_beat_time * sample_rate), with
\* first_beat_time = beat_times[0] + start_offset the first_beat_time field.
C6_FramePaddingRounded ==
    IsSyncResult
    => /\ ret.result.value.first_beat_time = beat_times[1] + ret.start_offset
       /\ ret.result.value.frame_padding
            = -PyRound((beat_times[1] + ret.start_offset) * sample_rate,
                       TicksPerSecond)

\* C6, amended: frame_padding is first_beat_time * sample_rate with its
\* fractional part dropped (truncated toward zero), negated, where
\* first_beat_time = beat_times[0] + start_offset is the first_beat_time field.
C6_FramePaddingTruncated ==
    IsSyncResult
    => LET product == (beat_times[1] + ret.start_offset) * sample_rate
           frames == -ret.result.value.frame_padding
       IN  /\ ret.result.value.first_beat_time = beat_times[1] + ret.start_offset
           /\ product >= 0 => /\ frames * TicksPerSecond <= product
                              /\ product < (frames + 1) * TicksPerSecond
           /\ product < 0 => /\ frames * TicksPerSecond >= product
                             /\ product > (frames - 1) * TicksPerSecond

C6_Witness ==
    /\ IsSyncResult
    /\ LET product == (beat_times[1] + ret.start_offset) * sample_rate
       IN  /\ product > 0
           /\ 2 * (product % TicksPerSecond) > TicksPerSecond
           /\ ret.result.value.frame_padding = -(product \div TicksPerSecond)

PlannedFrom == IF analyzer[1].tab_start_bar > 0 THEN 2 ELSE 1

\* beat index i is nearest, among all detected beats, to the time t
NearestOfAll(self, i, t) ==
    \A j \in 0..(Len(self.beat_times) - 1) :
        Abs(self.beat_times[i + 1] - t) <= Abs(self.beat_times[j + 1] - t)

\* C8: a sync point at a bar for which a beat is matched has as frame_offset
\* the sample position of the detected beat nearest, among all detected beats,
\* to the bar's expected time first_beat_time + (bar - tab_start_bar) *
\* expected_bar_duration (relative to the first beat in relative mode).
C8_FrameOffsetOfNearestBeat ==
    IsAdaptiveList
    => LET self == analyzer[1]
           points == ret.result.value
       IN  \A k \in PlannedFrom..Len(points) :
             LET bars_from_start == points[k].bar - self.tab_start_bar
                 expected == self.first_beat_time
                               + bars_from_start * self.expected_bar_duration
             IN  _find_nearest_beat_to_expected(self, bars_from_start) # NoIndex
                 => \E i \in 0..(Len(self.beat_times) - 1) :
                       /\ NearestOfAll(self, i, expected)
                       /\ points[k].frame_offset
                            = Frames(IF self.tab_start_bar > 0
                                     THEN self.beat_times[i + 1]
                                     ELSE self.beat_times[i + 1] - self.first_beat_time,
                                     self.sample_rate)

\* C9: for a bar beyond the detected beats with no matched beat, frame_offset
\* is extrapolated from the last detected beat: its time (relative to the
\* first beat) plus (bar * beats_per_bar - index of the last beat) expected
\* beat intervals, converted to samples.
C9_ExtrapolatedFromLastBeat ==
    (IsAdaptiveList /\ analyzer[1].tab_start_bar = 0)
    => LET self == analyzer[1]
           points == ret.result.value
           last_idx == Len(self.beat_times) - 1
       IN  \A k \in 1..Len(points) :
             _find_nearest_beat_to_expected(self, points[k].bar) = NoIndex
             => points[k].frame_offset
                  = Frames(self.beat_times[last_idx + 1] - self.first_beat_time
                             + (points[k].bar * self.beats_per_bar - last_idx)
                                 * self.expected_beat_interval,
                           self.sample_rate)

\* C10: on a constructed DriftAnalyzer, analyze, get_drift_at_bar and
\* generate_adaptive_sync_points return a value and never raise.
C10_AnalyzerCallsNeverRaise ==
    ret.op \in {"analyze", "get_drift_at_bar", "generate_adaptive_sync_points"}
    => ret.result.raised = "None"

\* C11: every frame_offset the engine produces is non-negative, in both
\* addressing modes and for every bar: the offsets of an adaptive plan and
\* the offset computed for any single bar, a bar before tab_start_bar
\* included (extrapolated backward from the first beat and clamped at 0).
C11_FrameOffsetsNonNegative ==
    /\ IsAdaptiveList
        => \A k \in 1..Len(ret.result.value) : ret.result.value[k].frame_offset >= 0
    /\ ret.op = "_calculate_frame_offset_for_bar" => ret.result.value >= 0

\* an intro bar whose backward extrapolation falls before the start of the audio
C11_Witness ==
    /\ ret.op = "_calculate_frame_offset_for_bar"
    /\ analyzer[1].tab_start_bar > 0
    /\ ret.bar < analyzer[1].tab_start_bar
    /\ analyzer[1].first_beat_time
         < (analyzer[1].tab_start_bar - ret.bar) * analyzer[1].expected_bar_duration
    /\ ret.result.value = 0

\* the BarDriftInfo of the same tab tempo whose drift has the opposite sign
Mirrored(info) ==
    [info EXCEPT !.local_tempo =
        Rat(2 * info.original_tempo * info.local_tempo[2] - info.local_tempo[1],
            info.local_tempo[2])]

IsReport == ret.op = "analyze" /\ ret.result.raised = "None"

\* the number of analyzed bars of a report that are rated STABLE or MINOR
StableCount(report) ==
    Cardinality({i \in 1..Len(report.bar_drifts) :
                    severity(report.bar_drifts[i]) \in {"STABLE", "MINOR"}})

\* C13: in a report with at least one analyzed bar, tempo_stability_score is
\* the fraction of the analyzed bars rated STABLE or MINOR, and
\* recommended_sync_interval is 8 for a score >= 0.9, 4 for a score >= 0.7
\* and below 0.9, 2 for a score >= 0.5 and below 0.7, and 1 otherwise.
C13_StabilityScoreAndInterval ==
    (IsReport /\ ret.result.value.total_bars_analyzed >= 1)
    => LET report == ret.result.value
           total == report.total_bars_analyzed
           stable == StableCount(report)
       IN  /\ total = Len(report.bar_drifts)
           /\ report.tempo_stability_score[1] * total
                = stable * report.tempo_stability_score[2]
           /\ report.recommended_sync_interval
                = IF 10 * stable >= 9 * total THEN 8
                  ELSE IF 10 * stable >= 7 * total THEN 4
                  ELSE IF 10 * stable >= 5 * total THEN 2
                  ELSE 1

\* a report whose score lies between 0.7 and 0.9
C13_Witness ==
    /\ IsReport
    /\ ret.result.value.total_bars_analyzed >= 1
    /\ 10 * StableCount(ret.result.value) >= 7 * ret.result.value.total_bars_analyzed
    /\ 10 * StableCount(ret.result.value) < 9 * ret.result.value.total_bars_analyzed
    /\ ret.result.value.recommended_sync_interval = 4

\* the max_bars that analyze works with: the argument, or its estimate for None
ReportMaxBars ==
    IF ret.max_bars = NoMaxBars
    THEN EstimatedMaxBars(analyzer[1].beat_times, analyzer[1].first_beat_time,
                          analyzer[1].expected_bar_duration)
    ELSE ret.max_bars

NoAnalyzableBar ==
    \A bar \in 0..(ReportMaxBars - 1) : get_drift_at_bar(analyzer[1], bar) = <<>>

\* C14: if analyze finds no analyzable bar in 0..max_bars-1, as when max_bars
\* <= tab_start_bar or max_bars = 0, it returns (and does not raise) a report
\* with total_bars_analyzed = 0, empty bar_drifts and
\* bars_with_significant_drift, average and maximum drift 0 and
\* tempo_stability_score = 1.0.
C14_NoAnalyzableBarReport ==
    ret.op = "analyze"
    => /\ ret.result.raised = "None"
       /\ (ReportMaxBars <= analyzer[1].tab_start_bar \/ ReportMaxBars = 0)
          => NoAnalyzableBar
       /\ NoAnalyzableBar
          => /\ ret.result.value.total_bars_analyzed = 0
             /\ ret.result.value.bar_drifts = <<>>
             /\ ret.result.value.bars_with_significant_drift = <<>>
             /\ RatEq(ret.result.value.avg_drift_percent, <<0, 1>>)
             /\ RatEq(ret.result.value.max_drift_percent, <<0, 1>>)
             /\ RatEq(ret.result.value.tempo_stability_score, <<1, 1>>)

\* analyze asked for some bars, all of them before the first bar with notes
C14_Witness ==
    /\ IsReport
    /\ ret.max_bars >= 1
    /\ ret.max_bars <= analyzer[1].tab_start_bar
    /\ ret.result.value.total_bars_analyzed = 0
    /\ RatEq(ret.result.value.tempo_stability_score, <<1, 1>>)

IsCorrection == ret.op = "correct_tempo_multiple" /\ ret.result.raised = "None"

\* 100 * detected bpm lies between lo% and hi% of the reference tempo
RatioBetween(lo, hi) ==
    /\ lo * ret.reference_tempo * ret.beat_info.bpm[2] <= 100 * ret.beat_info.bpm[1]
    /\ 100 * ret.beat_info.bpm[1] <= hi * ret.reference_tempo * ret.beat_info.bpm[2]

\* C15: when the detected tempo is double the reference tempo (ratio 2.0, or
\* within 10% of it), the corrector returns a BeatInfo that keeps every other
\* beat of the input (the count halved), has half the detected bpm, and the
\* input BeatInfo is left as it was.
C15_DoubleTimeHalved ==
    (IsCorrection /\ RatioBetween(180, 220))
    => LET input == ret.beat_info.beat_times
           output == ret.result.value.beat_times
       IN  /\ Len(output) = (Len(input) + 1) \div 2
           /\ \A i \in 1..Len(output) : output[i] = input[2 * i - 1]
           /\ RatEq(ret.result.value.bpm,
                    <<ret.beat_info.bpm[1], 2 * ret.beat_info.bpm[2]>>)
           /\ ret.beat_info.beat_times = HalfTicks(beat_times)

\* a detected tempo exactly twice the reference, over an even number of beats
C15_Witness ==
    /\ IsCorrection
    /\ RatEq(ret.beat_info.bpm, <<2 * ret.reference_tempo, 1>>)
    /\ Len(ret.beat_info.beat_times) = 4
    /\ Len(ret.result.value.beat_times) = 2
    /\ RatEq(ret.result.value.bpm, <<ret.reference_tempo, 1>>)

\* C16: the corrector is idempotent: a BeatInfo whose bpm is close to the
\* reference tempo (ratio about 1.0, such as 1.04) comes back with the same
\* bpm and beat_times, and so does every BeatInfo the corrector returned.
C16_CorrectorIdempotent ==
    IsCorrection
    => /\ RatioBetween(90, 110) => ret.result.value = ret.beat_info
       /\ correct_tempo_multiple(ret.result.value, ret.reference_tempo)
            = ret.result.value

\* a detected tempo a few percent above the reference, returned as it was
C16_Witness ==
    /\ IsCorrection
    /\ RatioBetween(101, 105)
    /\ Len(ret.beat_info.beat_times) >= 2
    /\ ret.result.value = ret.beat_info

\* the number of sync points of the same call made with another sync_interval
CountWith(sync_interval) ==
    LET other == generate_sync_points(beat_times, sample_rate, ret.original_tempo,
                     ret.beats_per_bar, sync_interval, ret.start_offset,
                     ret.max_bars, ret.adaptive)
    IN  IF other.raised = "None" THEN Len(other.value.sync_points) ELSE -1

\* the sync intervals above the call's own that are multiples of beats_per_bar
LargerIntervals ==
    {s \in SyncIntervals : s > ret.sync_interval /\ s % ret.beats_per_bar = 0}

\* C17: for the same beats, tempo and max_bars, generate_sync_points with a
\* smaller sync_interval never returns fewer sync points than with a larger
\* one (both multiples of beats_per_bar), in adaptive and in static mode.
C17_CountMonotoneInInterval ==
    (IsSyncResult /\ ret.sync_interval % ret.beats_per_bar = 0)
    => \A s \in LargerIntervals :
          /\ CountWith(s) >= 0
          /\ Len(ret.result.value.sync_points) >= CountWith(s)

\* an adaptive plan that loses sync points when the interval grows
C17_Witness ==
    /\ IsSyncResult
    /\ ret.adaptive
    /\ ~InsufficientBeats(beat_times)
    /\ ret.sync_interval % ret.beats_per_bar = 0
    /\ \E s \in LargerIntervals :
          /\ CountWith(s) >= 1
          /\ Len(ret.result.value.sync_points) > CountWith(s)

\* a step that is a call of one of the four methods on a constructed analyzer
MethodCall ==
    /\ analyzer # <<>>
    /\ ret = NoCall
    /\ ret'.op \in {"analyze", "get_drift_at_bar", "calculate_local_tempo_at_bar",
                    "generate_adaptive_sync_points"}

\* C18: a DriftAnalyzer is stateless after construction: no call of analyze,
\* get_drift_at_bar, calculate_local_tempo_at_bar or
\* generate_adaptive_sync_points changes beat_times, original_tempo,
\* tab_start_bar, first_beat_time or any other field, so that a call's result
\* does not depend on the calls made before it.
C18_MethodsLeaveAnalyzerUnchanged ==
    [][MethodCall => (analyzer' = analyzer /\ beat_times' = beat_times)]_vars

\* a method has returned on an analyzer that still holds what its constructor
\* derived from the caller's beats
C18_Witness ==
    /\ IsAdaptiveList
    /\ Len(ret.result.value) >= 2
    /\ analyzer[1].beat_times = beat_times
    /\ analyzer[1].first_beat_time = beat_times[1]

\* C19: in any sequence of extract and cleanup calls on a GPFile,
\* get_gpif_path, get_audio_dir and repackage raise GPFileCorruptedError
\* whenever there has been no successful extract since construction or since
\* the last cleanup; a second extract without cleanup returns the same
\* directory as the first; cleanup leaves temp_dir None and is_extracted false.
C19_ExtractCleanupLifecycle ==
    /\ (ret.op \in {"get_gpif_path", "get_audio_dir", "repackage"} /\ ~live_extract)
       => ret.result.raised = "GPFileCorruptedError"
    /\ (ret.op = "extract" /\ ret.result.raised = "None")
       => /\ ret.result.value = gp_file[1].temp_dir
          /\ ret.live_before => ret.result.value = ret.temp_dir_before
    /\ ret.op = "cleanup"
       => (gp_file[1].temp_dir = NoDir /\ ~gp_file[1].is_extracted)

IsInjection == ret.op = "inject_sync_points"

\* the children of MasterTrack/Automations of the loaded document
Children(self) ==
    IF self.root[1].automations = <<>> THEN <<>> ELSE self.root[1].automations[1]

\* the children of MasterTrack/Automations of the file the document came from
FileChildren(self) ==
    IF self.file.automations = <<>> THEN <<>> ELSE self.file.automations[1]

C22_NearestWithinWindow ==
    (ret.op = "_find_nearest_beat_to_expected" /\ ret.result.value # NoIndex)
    => LET self == analyzer[1]
           idx == ret.result.value
           expected == ExpectedAbsoluteTime(self, ret.bars_from_start)
           window == SearchStart(self, ret.bars_from_start)
                       ..(SearchEnd(self, ret.bars_from_start) - 1)
       IN  /\ idx \in window
           /\ \A j \in window :
                 /\ Abs(self.beat_times[idx + 1] - expected)
                      <= Abs(self.beat_times[j + 1] - expected)
                 /\ Abs(self.beat_times[idx + 1] - expected)
                      = Abs(self.beat_times[j + 1] - expected) => idx <= j

\* the k-th beat of the analyzer is a false detection between two beats of a
\* sequence that is otherwise regular at the tab tempo
SpuriousAt(self, k) ==
    /\ 1 < k /\ k < Len(self.beat_times)
    /\ WithoutBeat(self.beat_times, k)
         = RegularBeats(self.first_beat_time, self.expected_beat_interval,
                        Len(self.beat_times) - 1)

\* the analyzer of the same tab over the beats without the k-th
CleanAnalyzer(self, k) ==
    DriftAnalyzerInit(WithoutBeat(self.beat_times, k), self.original_tempo,
                      self.beats_per_bar, self.sample_rate, self.tab_start_bar)

\* C23: nearest-beat matching self-corrects after a single false detection:
\* for a beat sequence that is perfectly regular at the tab tempo with one
\* spurious extra beat inserted anywhere between two real beats, every bar
\* whose expected time is not after the last beat still gets the frame offset
\* of its true bar-start beat, (bar - tab_start_bar) * expected_bar_duration *
\* sample_rate in relative terms (counted from the first beat; from the start
\* of the audio when there are intro bars), the same as without the spurious
\* beat.
C23_SpuriousBeatSelfCorrects ==
    ret.op = "_calculate_frame_offset_for_bar"
    => LET self == analyzer[1]
           relative == (ret.bar - self.tab_start_bar) * self.expected_bar_duration
       IN  \A k \in 1..Len(self.beat_times) :
              (/\ SpuriousAt(self, k)
               /\ self.first_beat_time + relative
                    <= self.beat_times[Len(self.beat_times)])
              => /\ ret.result.value
                      = _calculate_frame_offset_for_bar(CleanAnalyzer(self, k), ret.bar)
                 /\ ret.bar >= self.tab_start_bar
                    => ret.result.value
                         = Frames(IF self.tab_start_bar > 0
                                  THEN self.first_beat_time + relative
                                  ELSE relative,
                                  self.sample_rate)

\* a bar after the false beat, where direct indexing would be one beat early
C23_Witness ==
    /\ ret.op = "_calculate_frame_offset_for_bar"
    /\ \E k \in 1..Len(analyzer[1].beat_times) :
          /\ SpuriousAt(analyzer[1], k)
          /\ (ret.bar - analyzer[1].tab_start_bar) * analyzer[1].beats_per_bar >= k
          /\ (ret.bar - analyzer[1].tab_start_bar) * analyzer[1].beats_per_bar + 1
               < Len(analyzer[1].beat_times)
    /\ ret.result.value
         = Frames((ret.bar - analyzer[1].tab_start_bar)
                     * analyzer[1].expected_bar_duration, analyzer[1].sample_rate)
    /\ ret.result.value > 0
    /\ analyzer[1].tab_start_bar = 0

IsPositions == ret.op = "_find_sync_point_positions" /\ ret.result.raised = "None"

\* C24: in the bar list of _find_sync_point_positions, every two consecutive
\* bars differ by at least MIN_SYNC_INTERVAL (1) and at most
\* MAX_SYNC_INTERVAL (8), for every base_interval and every drift pattern,
\* and fewer than MAX_SYNC_INTERVAL bars lie between the last planned bar and
\* max_bars; the list is therefore strictly increasing.
C24_SpacingBetweenMinAndMax ==
    IsPositions
    => LET positions == ret.result.value
       IN  /\ Len(positions) >= 1
           /\ \A i \in 1..(Len(positions) - 1) :
                 /\ positions[i + 1] - positions[i] >= MIN_SYNC_INTERVAL
                 /\ positions[i + 1] - positions[i] <= MAX_SYNC_INTERVAL
           /\ Cardinality({bar \in BarCounts : /\ bar > positions[Len(positions)]
                                               /\ bar < ret.max_bars})
                < MAX_SYNC_INTERVAL
           /\ \A i, j \in 1..Len(positions) : i < j => positions[i] < positions[j]

\* a base interval above the maximum: the sync point after tab_start_bar is
\* the forced one, MAX_SYNC_INTERVAL bars later
C24_Witness ==
    /\ IsPositions
    /\ ret.base_interval > MAX_SYNC_INTERVAL
    /\ Len(ret.result.value) >= 2
    /\ ret.result.value[2] - ret.result.value[1] = MAX_SYNC_INTERVAL
    /\ ret.max_bars > ret.result.value[2] + 1

\* the bar has drift info whose |drift_percent| is 0.5 or more
DriftsAtLeastHalfPercent(self, bar) ==
    /\ get_drift_at_bar(self, bar) # <<>>
    /\ LET x == drift_percent(get_drift_at_bar(self, bar)[1])
       IN  2 * Abs(x[1]) >= x[2]

NoDriftInRange ==
    /\ IsPositions
    /\ ret.base_interval >= 1
    /\ \A bar \in BarCounts :
          (analyzer[1].tab_start_bar < bar /\ bar < ret.max_bars)
          => ~DriftsAtLeastHalfPercent(analyzer[1], bar)

\* g = min(base_interval, MAX_SYNC_INTERVAL)
EvenStep == IF ret.base_interval <= MAX_SYNC_INTERVAL
            THEN ret.base_interval ELSE MAX_SYNC_INTERVAL

\* C26 as stated: when no bar in the range reaches the drift threshold, the
\* planned positions are exactly the bars tab_start_bar + k * g below max_bars
\* for k = 0, 1, 2, ..., with g = min(base_interval, MAX_SYNC_INTERVAL) and
\* base_interval >= 1.
C26_EvenlySpacedBelowMaxBars ==
    NoDriftInRange
    => LET positions == ret.result.value
           start == analyzer[1].tab_start_bar
       IN  /\ \A i \in 1..Len(positions) :
                 /\ positions[i] = start + (i - 1) * EvenStep
                 /\ positions[i] < ret.max_bars
           /\ start + Len(positions) * EvenStep >= ret.max_bars

\* C26, amended: when no bar in the range reaches the drift threshold and
\* base_interval >= 1, the planned positions are tab_start_bar itself, which
\* is always planned, also when max_bars <= tab_start_bar, followed by the
\* bars tab_start_bar + k * g below max_bars for k = 1, 2, ..., with
\* g = min(base_interval, MAX_SYNC_INTERVAL).
C26_EvenlySpacedFromTabStartBar ==
    NoDriftInRange
    => LET positions == ret.result.value
           start == analyzer[1].tab_start_bar
       IN  /\ Len(positions) >= 1
           /\ \A i \in 1..Len(positions) :
                 /\ positions[i] = start + (i - 1) * EvenStep
                 /\ i >= 2 => positions[i] < ret.max_bars
           /\ start + Len(positions) * EvenStep >= ret.max_bars

\* steady beats, intro bars and a base interval of 2: every second bar from
\* tab_start_bar on
C26_Witness ==
    /\ NoDriftInRange
    /\ ret.base_interval = 2
    /\ analyzer[1].tab_start_bar > 0
    /\ Len(ret.result.value) >= 3
    /\ ret.result.value[3] = analyzer[1].tab_start_bar + 4
    /\ get_drift_at_bar(analyzer[1], ret.result.value[2]) # <<>>

\* C27: when tab_start_bar > 0, generate_adaptive_sync_points returns as
\* first element a sync point at bar 0 with frame_offset 0 and modified_tempo
\* = original_tempo * (tab_start_bar * expected_bar_duration /
\* first_beat_time), so that tab_start_bar bars played at that tempo last
\* exactly first_beat_time seconds; when tab_start_bar == 0 no such extra
\* point is added.
C27_IntroPointStretchesIntro ==
    ret.op = "generate_adaptive_sync_points"
    => LET self == analyzer[1]
           positions == _find_sync_point_positions(self, ret.max_bars,
                                                   ret.base_interval)
       IN  /\ ret.result.raised = "None"
           /\ self.tab_start_bar > 0
              => LET intro == ret.result.value[1]
                 IN  /\ Len(ret.result.value) = Len(positions) + 1
                     /\ intro.bar = 0
                     /\ intro.frame_offset = 0
                     /\ intro.original_tempo = self.original_tempo
                     /\ intro.modified_tempo[1] * self.first_beat_time
                          = self.original_tempo * self.tab_start_bar
                              * self.expected_bar_duration * intro.modified_tempo[2]
                     \* tab_start_bar bars of beats_per_bar beats, each
                     \* 60 / modified_tempo seconds long
                     /\ self.tab_start_bar * self.beats_per_bar * 60 * TicksPerSecond
                          * intro.modified_tempo[2]
                          = self.first_beat_time * intro.modified_tempo[1]
           /\ self.tab_start_bar = 0
              => /\ Len(ret.result.value) = Len(positions)
                 /\ \A k \in 1..Len(positions) : ret.result.value[k].bar = positions[k]

\* the k-th smallest value of a sequence
KthSmallest(s, k) ==
    CHOOSE x \in {s[i] : i \in 1..Len(s)} :
        /\ Cardinality({i \in 1..Len(s) : s[i] < x}) < k
        /\ Cardinality({i \in 1..Len(s) : s[i] <= x}) >= k

\* twice the median: the middle value, or the mean of the two middle values
TwiceMedian(s) ==
    IF Len(s) % 2 = 1 THEN 2 * KthSmallest(s, (Len(s) + 1) \div 2)
    ELSE KthSmallest(s, Len(s) \div 2) + KthSmallest(s, Len(s) \div 2 + 1)

\* the beats beat_index - 4 .. beat_index + 4 that exist
TempoWindow(self, bar) ==
    LET beat_index == (bar - self.tab_start_bar) * self.beats_per_bar
    IN  {i \in 0..(Len(self.beat_times) - 1) :
            /\ i >= beat_index - WINDOW_BEATS \div 2
            /\ i <= beat_index + WINDOW_BEATS \div 2}

\* C28: calculate_local_tempo_at_bar returns exactly original_tempo when
\* bar < tab_start_bar, when the estimated beat index (bar - tab_start_bar) *
\* beats_per_bar is at or past the end of the detected beats, or when the
\* window holds fewer than 2 beats; otherwise it returns 60 divided by the
\* median of the beat-to-beat intervals in the window, which is positive for
\* strictly increasing beat times.
C28_LocalTempoOrFallback ==
    ret.op = "calculate_local_tempo_at_bar"
    => LET self == analyzer[1]
           window == TempoWindow(self, ret.bar)
           lo == CHOOSE i \in window : \A j \in window : i <= j
           intervals == [k \in 1..(Cardinality(window) - 1) |->
                            self.beat_times[lo + k + 1] - self.beat_times[lo + k]]
           fallback ==
               \/ ret.bar < self.tab_start_bar
               \/ (ret.bar - self.tab_start_bar) * self.beats_per_bar
                    >= Len(self.beat_times)
               \/ Cardinality(window) < 2
       IN  /\ ret.result.raised = "None"
           /\ fallback => ret.result.value = <<self.original_tempo, 1>>
           /\ ~fallback
              => /\ ret.result.value[1] > 0 /\ ret.result.value[2] > 0
                 \* value * median = 60 seconds
                 /\ ret.result.value[1] * TwiceMedian(intervals)
                      = 2 * 60 * TicksPerSecond * ret.result.value[2]

\* a window with an even number of intervals whose two middle values differ
C28_Witness ==
    /\ ret.op = "calculate_local_tempo_at_bar"
    /\ ret.bar > analyzer[1].tab_start_bar
    /\ (ret.bar - analyzer[1].tab_start_bar) * analyzer[1].beats_per_bar
         < Len(analyzer[1].beat_times)
    /\ Cardinality(TempoWindow(analyzer[1], ret.bar)) = 5
    /\ ret.result.value = <<(2 * 60 * TicksPerSecond) \div (1 + MaxGap), 1>>
    /\ ret.result.value # <<analyzer[1].original_tempo, 1>>

\* C29: in the list returned by generate_adaptive_sync_points, frame_offset
\* is non-decreasing in bar order for every strictly increasing beat sequence
\* (also one slower or faster than the tab tempo): a later bar is never
\* mapped to an earlier audio position than an earlier bar.
C29_FrameOffsetsNonDecreasing ==
    IsAdaptiveList
    => \A i, j \in 1..Len(ret.result.value) :
          ret.result.value[i].bar < ret.result.value[j].bar
          => ret.result.value[i].frame_offset <= ret.result.value[j].frame_offset

\* the BackingTrack children of the root
BackingTracks(self) == SelectSeq(self.root[1].children, LAMBDA c : c.tag = "BackingTrack")

\* C30: if XMLModifier.inject_backing_track fails with XMLStructureError
\* (MasterTrack or Tracks element missing), the loaded document is left
\* unchanged: a BackingTrack element that existed before the call is still
\* present afterwards; and after any sequence of successful calls the
\* document holds exactly one BackingTrack.
C30_FailedInjectionChangesNothing ==
    ret.op = "inject_backing_track"
    => /\ ret.result.raised = "XMLStructureError"
          => /\ modifier[1] = ret.before
             /\ BackingTracks(modifier[1]) = BackingTracks(ret.before)
       /\ ret.result.raised = "None" => Len(BackingTracks(modifier[1])) = 1

====
